---- MODULE Spec2Model ----
(***************************************************************************)
(* Model of custom_plotting.py: spaghetti_plot and ribbon_plot.            *)
(*                                                                         *)
(* State: the canvases (matplotlib Axes) with the artists drawn on them,   *)
(* pyplot's ambient current axes, the caller's fill_kwargs mapping (passed *)
(* by reference to ribbon_plot, which pops entries from it), the shape of  *)
(* the ensemble y, and a record of the last call (arguments, locals,       *)
(* outcome and the state it started from).                                 *)
(*                                                                         *)
(* A curve is identified by what was plotted: a sample line by its row of  *)
(* y, a percentile curve by its percentile level.  Percentile levels are   *)
(* exact rationals <<numerator, denominator>>.  The colour arguments and   *)
(* plot_kwargs are forwarded verbatim to the drawing calls and are left    *)
(* out.                                                                    *)
(***************************************************************************)
EXTENDS Integers, Sequences, FiniteSets, TLC

VARIABLES y_shape, axes, gca, caller_fill_kwargs, last, calls

vars == <<y_shape, axes, gca, caller_fill_kwargs, last, calls>>

(***************************************************************************)
(* Bounds                                                                  *)
(***************************************************************************)
MaxRows == 2        \* y has 1..MaxRows sample rows (axis 0)
MaxCols == 2        \* y has 1..MaxCols positions (axis 1)
MaxSamples == 2     \* explicit n_samples values are 0..MaxSamples
MaxIdxLen == 2      \* explicit index sequences have at most this length
MaxPeriod == 2      \* random draws longer than this repeat with this period
MaxRibbons == 3     \* n_ribbons is 0..MaxRibbons
NumAxes == 2        \* number of canvases
MaxCalls == 2       \* calls per behaviour in SpecSeq

DefaultNSamples == 20

Axes == 1..NumAxes

(***************************************************************************)
(* Python values                                                           *)
(***************************************************************************)
None == [tag |-> "None"]
Absent == [tag |-> "absent"]
Some(v) == [tag |-> "some", val |-> v]

IsNone(v) == v.tag = "None"

Min(a, b) == IF a < b THEN a ELSE b

\* dict: a function from keys to values; {} is the empty function
EmptyDict == <<>>
DictTruthy(d) == DOMAIN d # {}
DictGet(d, k, default) == IF k \in DOMAIN d THEN d[k] ELSE default
DictWithout(d, k) == [x \in (DOMAIN d) \ {k} |-> d[x]]

\* exact rationals
RatLT(a, b) == a[1] * b[2] < b[1] * a[2]
RatLE(a, b) == a[1] * b[2] <= b[1] * a[2]
RatEQ(a, b) == a[1] * b[2] = b[1] * a[2]
Fifty == <<50, 1>>

SeqsUpTo(S, n) == UNION {[1..k -> S] : k \in 0..n}

(***************************************************************************)
(* numpy                                                                   *)
(***************************************************************************)
\* np.linspace(start, stop, num, endpoint): num evenly spaced values
Linspace(start, stop, num, endpoint) ==
    LET div == IF endpoint THEN num - 1 ELSE num
    IN  [i \in 1..num |->
            IF div > 0 THEN <<start * div + (i - 1) * (stop - start), div>>
                       ELSE <<start, 1>>]

\* np.random.choice(range(population), size): size draws with replacement.
\* Draws longer than MaxPeriod are enumerated up to period MaxPeriod.
RandomChoice(population, size) ==
    LET P == Min(size, MaxPeriod)
    IN  {[i \in 1..size |-> p[((i - 1) % P) + 1]] : p \in [1..P -> 0..(population - 1)]}

\* zip(s, t)
Zip(s, t) == [i \in 1..Min(Len(s), Len(t)) |-> <<s[i], t[i]>>]

(***************************************************************************)
(* spaghetti_plot                                                          *)
(***************************************************************************)
\* the signature: n_samples=20 when the argument is not passed
BindNSamples(n_arg) == IF n_arg = Absent THEN Some(DefaultNSamples) ELSE n_arg

\* bool(n_samples)
HasSamples(n_samples) == (~IsNone(n_samples)) /\ n_samples.val # 0

\* indices is not None
HasIndices(indices) == ~IsNone(indices)

\* if has_indices == has_samples: raise ValueError
Rejects(has_indices, has_samples) == has_indices = has_samples

\* the population np.random.choice draws from: range(y.shape[1])
ChoicePopulation(shape) == shape[2]

\* the values rnd may take in a call: the outcomes of np.random.choice when
\* it is called, nothing to choose otherwise
Draws(n_arg, indices_arg, shape) ==
    LET n_samples == BindNSamples(n_arg)
    IN  IF HasSamples(n_samples) /\ ~HasIndices(indices_arg)
        THEN RandomChoice(ChoicePopulation(shape), n_samples.val)
        ELSE {<<>>}

\* ax = ax or plt.gca()
ResolveAx(ax_arg, current) == IF IsNone(ax_arg) THEN current ELSE ax_arg.val

\* the iterations of `for idx in indices: ax.plot(x, y[idx])` that complete:
\* y[idx] raises IndexError at the first idx outside the rows of y
Drawn(indices, shape) ==
    LET bad == {i \in 1..Len(indices) : indices[i] \notin 0..(shape[1] - 1)}
        stop == IF bad = {} THEN Len(indices) + 1
                ELSE CHOOSE i \in bad : \A j \in bad : i <= j
    IN  SubSeq(indices, 1, stop - 1)

Lines(rows) == [i \in 1..Len(rows) |-> [kind |-> "line", row |-> rows[i]]]

\* the loop of a call that passed the check
SpaghettiDraw(indices, ax_arg, shape, current, canvases) ==
    LET target == ResolveAx(ax_arg, current)
        drawn == Drawn(indices, shape)
    IN  [error |-> IF Len(drawn) < Len(indices) THEN "IndexError" ELSE "none",
         indices |-> indices,
         axes |-> [canvases EXCEPT ![target] = @ \o Lines(drawn)],
         gca_calls |-> IF IsNone(ax_arg) THEN 1 ELSE 0,
         ret |-> IF Len(drawn) < Len(indices) THEN None ELSE Some(target)]

\* mutant: the check is made after the loop
SpaghettiOutcomeLateCheck(n_arg, indices_arg, ax_arg, rnd, shape, current, canvases) ==
    LET n_samples == BindNSamples(n_arg)
        has_indices == HasIndices(indices_arg)
        has_samples == HasSamples(n_samples)
        indices == IF has_indices THEN indices_arg.val ELSE rnd
        d == SpaghettiDraw(indices, ax_arg, shape, current, canvases)
    IN  IF Rejects(has_indices, has_samples)
        THEN [d EXCEPT !.error = "ValueError", !.ret = None]
        ELSE d

\* the whole body of spaghetti_plot
SpaghettiOutcome(n_arg, indices_arg, ax_arg, rnd, shape, current, canvases) ==
    LET n_samples == BindNSamples(n_arg)
        has_indices == HasIndices(indices_arg)
        has_samples == HasSamples(n_samples)
    IN  IF Rejects(has_indices, has_samples)
        THEN [error |-> "ValueError", indices |-> <<>>, axes |-> canvases,
              gca_calls |-> 0, ret |-> None]
        ELSE SpaghettiDraw(IF has_samples THEN rnd ELSE indices_arg.val,
                           ax_arg, shape, current, canvases)

spaghetti_plot(n_arg, indices_arg, ax_arg) ==
    \E rnd \in Draws(n_arg, indices_arg, y_shape) :
        LET out == SpaghettiOutcome(n_arg, indices_arg, ax_arg, rnd, y_shape, gca, axes)
        IN  /\ axes' = out.axes
            /\ last' = [op |-> "spaghetti_plot", n_samples |-> n_arg,
                        indices_arg |-> indices_arg, ax |-> ax_arg,
                        indices |-> out.indices, error |-> out.error,
                        gca_calls |-> out.gca_calls, ret |-> out.ret,
                        pre |-> [axes |-> axes, gca |-> gca,
                                 fill_kwargs |-> caller_fill_kwargs],
                        prev |-> last]
            /\ calls' = calls + 1
            /\ UNCHANGED <<y_shape, gca, caller_fill_kwargs>>

(***************************************************************************)
(* ribbon_plot                                                             *)
(***************************************************************************)
\* mutant: the lower boundaries drawn with linspace's default endpoint=True
LowerLevelsWithEndpoint(percentile_min, n_ribbons) ==
    Linspace(percentile_min, 50, n_ribbons, TRUE)

\* np.linspace(percentile_min, 50, num=n_ribbons, endpoint=False)
LowerLevels(percentile_min, n_ribbons) ==
    Linspace(percentile_min, 50, n_ribbons, FALSE)

\* mutant: num=n_ribbons instead of n_ribbons + 1
UpperLevelsShort(percentile_max, n_ribbons) ==
    Tail(Linspace(50, percentile_max, n_ribbons, TRUE))

\* np.linspace(50, percentile_max, num=n_ribbons + 1)[1:]
UpperLevels(percentile_max, n_ribbons) ==
    Tail(Linspace(50, percentile_max, n_ribbons + 1, TRUE))

\* fill_kwargs = fill_kwargs or {}: the caller's mapping itself when one is
\* passed and is not empty, a fresh empty mapping otherwise
SharesCallerDict(pass_fill_kwargs, caller) == pass_fill_kwargs /\ DictTruthy(caller)

\* line_kwargs = line_kwargs or {}
LocalLineKwargs(line_arg) == IF IsNone(line_arg) THEN EmptyDict ELSE line_arg.val

\* 1 / n_ribbons
DefaultAlpha(n_ribbons) == <<1, n_ribbons>>

\* mutant: the entry is read with get, and stays in the mapping
KeepAlpha(fill_kwargs) == fill_kwargs

\* what fill_kwargs.pop('alpha', ...) leaves in the mapping
PopAlpha(fill_kwargs) == DictWithout(fill_kwargs, "alpha")

\* mutant: plt.sca(ax) is not called
KeepCurrent(target, current) == current

\* the ambient current axes after plt.sca(ax)
SetCurrent(target, current) == target

\* a truthy `step` entry; a missing entry pops as None
StepTruthy(d) == DictGet(d, "step", "") # ""

\* mutant: the flag is read from line_kwargs
PlotFuncFromLineKwargs(fill_kwargs, line_kwargs) ==
    IF StepTruthy(line_kwargs) THEN "step" ELSE "plot"

\* plot_func = plt.step if fill_kwargs.pop("step", None) else plt.plot
PlotFunc(fill_kwargs, line_kwargs) ==
    IF StepTruthy(fill_kwargs) THEN "step" ELSE "plot"

\* what fill_kwargs.pop("step", None) leaves in the mapping
PopStep(fill_kwargs) == DictWithout(fill_kwargs, "step")

\* for p1, p2 in zip(perc1, perc2): plt.fill_between(x, p1, p2, alpha=alpha, **fill_kwargs)
Fills(perc1, perc2, alpha, fill_kwargs) ==
    LET pairs == Zip(perc1, perc2)
    IN  [i \in 1..Len(pairs) |->
            [kind |-> "fill_between", p1 |-> pairs[i][1], p2 |-> pairs[i][2],
             alpha |-> alpha, kwargs |-> fill_kwargs]]

\* plot_func(x, np.median(y, axis=0), **line_kwargs)
Median(plot_median, func, line_kwargs) ==
    IF plot_median
    THEN <<[kind |-> func, level |-> Fifty, kwargs |-> line_kwargs]>>
    ELSE <<>>

\* the whole body of ribbon_plot
RibbonOutcome(n_ribbons, percentile_min, percentile_max, plot_median, ax_arg, pass_fill_kwargs, line_arg, caller, current, canvases) ==
    LET perc1 == LowerLevels(percentile_min, n_ribbons)
        perc2 == UpperLevels(percentile_max, n_ribbons)
        shared == SharesCallerDict(pass_fill_kwargs, caller)
        fill_kwargs == IF shared THEN caller ELSE EmptyDict
        line_kwargs == LocalLineKwargs(line_arg)
    IN  IF n_ribbons = 0
        THEN \* 1 / n_ribbons is evaluated before pop is called
             [error |-> "ZeroDivisionError", axes |-> canvases, gca |-> current,
              fill_kwargs |-> caller, gca_calls |-> 0, ret |-> None]
        ELSE LET alpha == DictGet(fill_kwargs, "alpha", DefaultAlpha(n_ribbons))
                 fk1 == PopAlpha(fill_kwargs)
                 target == ResolveAx(ax_arg, current)
                 cur == SetCurrent(target, current)
                 func == PlotFunc(fk1, line_kwargs)
                 fk2 == IF plot_median THEN PopStep(fk1) ELSE fk1
                 drawn == Fills(perc1, perc2, alpha, fk1)
                              \o Median(plot_median, func, line_kwargs)
             IN  [error |-> "none",
                  axes |-> [canvases EXCEPT ![cur] = @ \o drawn],
                  gca |-> cur,
                  fill_kwargs |-> IF shared THEN fk2 ELSE caller,
                  gca_calls |-> IF IsNone(ax_arg) THEN 2 ELSE 1,
                  ret |-> Some(cur)]

ribbon_plot(n_ribbons, percentile_min, percentile_max, plot_median, ax_arg, pass_fill_kwargs, line_arg) ==
    LET out == RibbonOutcome(n_ribbons, percentile_min, percentile_max, plot_median,
                             ax_arg, pass_fill_kwargs, line_arg,
                             caller_fill_kwargs, gca, axes)
    IN  /\ axes' = out.axes
        /\ gca' = out.gca
        /\ caller_fill_kwargs' = out.fill_kwargs
        /\ last' = [op |-> "ribbon_plot", n_ribbons |-> n_ribbons,
                    percentile_min |-> percentile_min,
                    percentile_max |-> percentile_max,
                    plot_median |-> plot_median, ax |-> ax_arg,
                    pass_fill_kwargs |-> pass_fill_kwargs, line_kwargs |-> line_arg,
                    error |-> out.error, gca_calls |-> out.gca_calls, ret |-> out.ret,
                    pre |-> [axes |-> axes, gca |-> gca,
                             fill_kwargs |-> caller_fill_kwargs],
                    prev |-> last]
        /\ calls' = calls + 1
        /\ UNCHANGED y_shape

(***************************************************************************)
(* The callers                                                             *)
(***************************************************************************)
NSamplesArgs == {Absent, None} \cup {Some(k) : k \in 0..MaxSamples}

\* explicit indices: rows of y, and the first index past the last row
IndicesArgs(shape) == {None} \cup {Some(s) : s \in SeqsUpTo(0..shape[1], MaxIdxLen)}

AxArgs == {None} \cup {Some(a) : a \in Axes}

PercentileMins == {10, 60}
PercentileMaxs == {40, 99}

LineKwargsArgs == {None, Some([step |-> "pre"])}

CallerDicts ==
    { EmptyDict,
      [alpha |-> <<3, 10>>],
      [step |-> "pre"],
      [step |-> "", hatch |-> "x"],
      [alpha |-> <<3, 10>>, step |-> "pre", hatch |-> "x"],
      [alpha |-> <<3, 10>>, hatch |-> "x"] }

SpaghettiCall(limit, NS, IX, AX) ==
    /\ calls < limit
    /\ \E n_arg \in NS, indices_arg \in IX, ax_arg \in AX :
           spaghetti_plot(n_arg, indices_arg, ax_arg)

RibbonCall(limit, NR, PMIN, PMAX, PF, LK) ==
    /\ calls < limit
    /\ \E n_ribbons \in NR, percentile_min \in PMIN, percentile_max \in PMAX,
          plot_median \in BOOLEAN, ax_arg \in AxArgs,
          pass_fill_kwargs \in PF, line_arg \in LK :
           ribbon_plot(n_ribbons, percentile_min, percentile_max, plot_median,
                       ax_arg, pass_fill_kwargs, line_arg)

\* one call, with any of the arguments, from any initial state
Init ==
    /\ y_shape \in (1..MaxRows) \X (1..MaxCols)
    /\ axes = [a \in Axes |-> <<>>]
    /\ gca \in Axes
    /\ caller_fill_kwargs \in CallerDicts
    /\ last = [op |-> "none"]
    /\ calls = 0

Next ==
    \/ SpaghettiCall(1, NSamplesArgs, IndicesArgs(y_shape), AxArgs)
    \/ RibbonCall(1, 0..MaxRibbons, PercentileMins, PercentileMaxs, BOOLEAN, LineKwargsArgs)

Spec == Init /\ [][Next]_vars

\* sequences of up to MaxCalls calls, with fewer arguments
InitSeq ==
    /\ y_shape = <<MaxRows, MaxCols>>
    /\ axes = [a \in Axes |-> <<>>]
    /\ gca \in Axes
    /\ caller_fill_kwargs \in {[alpha |-> <<3, 10>>],
                               [alpha |-> <<3, 10>>, step |-> "pre", hatch |-> "x"]}
    /\ last = [op |-> "none"]
    /\ calls = 0

NextSeq ==
    \/ SpaghettiCall(MaxCalls, {Some(1)}, {None}, {Some(a) : a \in Axes})
    \/ RibbonCall(MaxCalls, {0, 2}, {10}, {99}, {TRUE}, {None})

SpecSeq == InitSeq /\ [][NextSeq]_vars

(***************************************************************************)
(* Reading the record of a call                                            *)
(***************************************************************************)
\* the artists a call added to canvas c, given the canvases after the call
Added(l, after, c) == SubSeq(after[c], Len(l.pre.axes[c]) + 1, Len(after[c]))

\* the call only appended to canvas c
OnlyAppendedTo(l, after, c) ==
    /\ \A d \in Axes \ {c} : after[d] = l.pre.axes[d]
    /\ Len(after[c]) >= Len(l.pre.axes[c])
    /\ SubSeq(after[c], 1, Len(l.pre.axes[c])) = l.pre.axes[c]

OfKind(artists, kinds) == {i \in DOMAIN artists : artists[i].kind \in kinds}

\* the canvas a completed call drew on
Target(l) == l.ret.val

\* the mapping a ribbon_plot call was given (None and {} both act as {})
GivenFillKwargs(l) == IF l.pass_fill_kwargs THEN l.pre.fill_kwargs ELSE EmptyDict

Completed(l, op) == l.op = op /\ l.error = "none"

\* the bands a completed ribbon_plot call drew
Bands(l, after) ==
    LET a == Added(l, after, Target(l))
    IN  [i \in 1..Cardinality(OfKind(a, {"fill_between"})) |-> a[i]]

WellFormedBounds(l) ==
    /\ 0 < l.percentile_min /\ l.percentile_min < 50
    /\ 50 < l.percentile_max /\ l.percentile_max < 100

InRows(s) == \A i \in DOMAIN s : s[i] \in 0..(y_shape[1] - 1)

(***************************************************************************)
(* C1: spaghetti_plot raises the configuration error exactly when both a   *)
(* nonzero count and an index set are given or when neither is given,      *)
(* where a count that is not passed, None or 0 is "not given".             *)
(***************************************************************************)
C1_RejectsIffNotExactlyOne ==
    last.op = "spaghetti_plot" =>
        LET count_given == last.n_samples.tag = "some" /\ last.n_samples.val > 0
            indices_given == last.indices_arg.tag = "some"
        IN  (last.error = "ValueError") <=> (count_given = indices_given)

(***************************************************************************)
(* C2: a call that passes only indices=I (n_samples not passed), with I    *)
(* within the rows of y, succeeds and adds one line per index, in order.   *)
(***************************************************************************)
C2_IndicesOnlyDrawsOneLinePerIndex ==
    (/\ last.op = "spaghetti_plot"
     /\ last.n_samples = Absent
     /\ last.indices_arg.tag = "some"
     /\ InRows(last.indices_arg.val))
    => /\ last.error = "none"
       /\ LET c == ResolveAx(last.ax, last.pre.gca)
          IN  axes[c] = last.pre.axes[c] \o Lines(last.indices_arg.val)

(***************************************************************************)
(* C3: in count mode every index spaghetti_plot selects is a row of y, and *)
(* the call does not fail on an out-of-range row.                          *)
(***************************************************************************)
C3_CountModeSelectsRows ==
    (/\ last.op = "spaghetti_plot"
     /\ last.indices_arg.tag = "None"
     /\ last.error # "ValueError")
    => /\ InRows(last.indices)
       /\ last.error = "none"

(***************************************************************************)
(* C4: when spaghetti_plot rejects the selection, nothing has been drawn   *)
(* and the ambient current canvas was neither resolved nor changed.        *)
(***************************************************************************)
C4_RejectionLeavesCanvases ==
    (last.op = "spaghetti_plot" /\ last.error = "ValueError")
    => /\ axes = last.pre.axes
       /\ gca = last.pre.gca
       /\ last.gca_calls = 0

C4_Witness ==
    /\ last.op = "spaghetti_plot" /\ last.error = "ValueError"
    /\ last.n_samples.tag = "some" /\ last.n_samples.val > 0
    /\ last.indices_arg.tag = "some" /\ Len(last.indices_arg.val) > 0
    /\ InRows(last.indices_arg.val)

(***************************************************************************)
(* C5: the bands of ribbon_plot are nested: a band whose lower boundary is *)
(* further out than another's has its upper boundary at least as far out.  *)
(***************************************************************************)
C5_BandsNested ==
    (Completed(last, "ribbon_plot") /\ WellFormedBounds(last))
    => LET b == Bands(last, axes)
       IN  \A i, j \in DOMAIN b :
               RatLT(b[i].p1, b[j].p1) => RatLE(b[j].p2, b[i].p2)

(***************************************************************************)
(* C6: a ribbon_plot call adds exactly n_ribbons filled regions, all on    *)
(* one canvas.                                                             *)
(***************************************************************************)
C6_FillCountIsNRibbons ==
    last.op = "ribbon_plot" =>
        \E c \in Axes :
            /\ OnlyAppendedTo(last, axes, c)
            /\ Cardinality(OfKind(Added(last, axes, c), {"fill_between"}))
                   = last.n_ribbons

C6_Witness ==
    /\ Completed(last, "ribbon_plot")
    /\ last.n_ribbons >= 2
    /\ Cardinality(OfKind(axes[Target(last)], {"fill_between"})) = last.n_ribbons

(***************************************************************************)
(* C7: with n_ribbons >= 1, percentile_min in (0,50) and percentile_max in *)
(* (50,100), every band has                                                *)
(* percentile_min <= lower < 50 < upper <= percentile_max.                 *)
(***************************************************************************)
C7_BandsStraddleFifty ==
    (Completed(last, "ribbon_plot") /\ last.n_ribbons >= 1 /\ WellFormedBounds(last))
    => LET b == Bands(last, axes)
       IN  \A i \in DOMAIN b :
               /\ RatLE(<<last.percentile_min, 1>>, b[i].p1)
               /\ RatLT(b[i].p1, Fifty)
               /\ RatLT(Fifty, b[i].p2)
               /\ RatLE(b[i].p2, <<last.percentile_max, 1>>)

C7_Witness ==
    /\ Completed(last, "ribbon_plot") /\ last.n_ribbons >= 2 /\ WellFormedBounds(last)
    /\ Len(Bands(last, axes)) = last.n_ribbons
    /\ \E i \in DOMAIN Bands(last, axes) :
           RatLT(<<last.percentile_min, 1>>, Bands(last, axes)[i].p1)

(***************************************************************************)
(* C8: after a sequence of calls that each pass an explicit canvas, the    *)
(* ambient current canvas is the one from before the sequence.             *)
(***************************************************************************)
RECURSIVE AllExplicit(_)
AllExplicit(l) == l.op = "none" \/ (l.ax.tag = "some" /\ AllExplicit(l.prev))

RECURSIVE InitialAmbient(_)
InitialAmbient(l) == IF l.prev.op = "none" THEN l.pre.gca ELSE InitialAmbient(l.prev)

C8_ExplicitCanvasKeepsAmbient ==
    (last.op # "none" /\ AllExplicit(last)) => gca = InitialAmbient(last)

(***************************************************************************)
(* C8 as amended: spaghetti_plot given an explicit canvas neither reads    *)
(* nor writes the ambient current canvas; ribbon_plot given an explicit    *)
(* canvas makes it the ambient current canvas when it completes.  After a  *)
(* sequence of calls that each pass an explicit canvas, the ambient        *)
(* canvas is the one passed to the last completed ribbon_plot call, or the *)
(* one from before the sequence if there was none.                         *)
(***************************************************************************)
RECURSIVE ExpectedAmbient(_)
ExpectedAmbient(l) ==
    IF Completed(l, "ribbon_plot") THEN l.ax.val
    ELSE IF l.prev.op = "none" THEN l.pre.gca
    ELSE ExpectedAmbient(l.prev)

C8_ExplicitCanvasAmbient ==
    (last.op # "none" /\ AllExplicit(last))
    => /\ gca = ExpectedAmbient(last)
       /\ last.op = "spaghetti_plot" => (last.gca_calls = 0 /\ gca = last.pre.gca)

C8_Witness ==
    /\ Completed(last, "ribbon_plot") /\ AllExplicit(last)
    /\ Completed(last.prev, "spaghetti_plot")
    /\ last.ax.val # last.pre.gca
    /\ gca # InitialAmbient(last)

(***************************************************************************)
(* C9: with plot_median true, ribbon_plot draws exactly one median curve,  *)
(* as a step line iff the fill-style mapping has a truthy `step` entry     *)
(* (whatever the line-style mapping holds), and that entry is still in the *)
(* options forwarded to every band's fill call.                            *)
(***************************************************************************)
C9_MedianStepFromFillKwargs ==
    (Completed(last, "ribbon_plot") /\ last.plot_median)
    => LET a == Added(last, axes, Target(last))
           given == GivenFillKwargs(last)
           b == Bands(last, axes)
       IN  /\ Cardinality(OfKind(a, {"plot", "step"})) = 1
           /\ a[Len(a)].kind = (IF StepTruthy(given) THEN "step" ELSE "plot")
           /\ a[Len(a)].level = Fifty
           /\ "step" \in DOMAIN given =>
                  \A i \in DOMAIN b :
                      /\ "step" \in DOMAIN b[i].kwargs
                      /\ b[i].kwargs["step"] = given["step"]

C9_Witness ==
    /\ Completed(last, "ribbon_plot") /\ last.plot_median
    /\ StepTruthy(GivenFillKwargs(last))
    /\ last.line_kwargs = None
    /\ last.n_ribbons >= 2
    /\ Len(Bands(last, axes)) = last.n_ribbons
    /\ axes[Target(last)][Len(axes[Target(last)])].kind = "step"

(***************************************************************************)
(* C10: a completed ribbon_plot call given a non-empty fill_kwargs mapping *)
(* removes `alpha` from it (and `step` when plot_median is true) and       *)
(* leaves its other entries unchanged; when the same mapping holding       *)
(* alpha=a is passed to two successive calls, the first draws its bands    *)
(* with transparency a and the second with 1/n_ribbons.                    *)
(***************************************************************************)
PassedMapping(l) ==
    Completed(l, "ribbon_plot") /\ l.pass_fill_kwargs /\ DictTruthy(l.pre.fill_kwargs)

C10_CallerMappingConsumed ==
    /\ PassedMapping(last) =>
           LET before == last.pre.fill_kwargs
               gone == {"alpha"} \cup (IF last.plot_median THEN {"step"} ELSE {})
           IN  /\ DOMAIN caller_fill_kwargs = (DOMAIN before) \ gone
               /\ \A k \in DOMAIN caller_fill_kwargs : caller_fill_kwargs[k] = before[k]
    /\ (/\ Completed(last, "ribbon_plot") /\ last.pass_fill_kwargs
        /\ PassedMapping(last.prev)
        /\ "alpha" \in DOMAIN last.prev.pre.fill_kwargs)
       => LET first == Bands(last.prev, last.pre.axes)
              second == Bands(last, axes)
          IN  /\ \A i \in DOMAIN first : first[i].alpha = last.prev.pre.fill_kwargs["alpha"]
              /\ \A i \in DOMAIN second : second[i].alpha = <<1, last.n_ribbons>>

C10_Witness ==
    /\ PassedMapping(last) /\ PassedMapping(last.prev)
    /\ "alpha" \in DOMAIN last.prev.pre.fill_kwargs
    /\ "hatch" \in DOMAIN caller_fill_kwargs
    /\ "alpha" \notin DOMAIN caller_fill_kwargs
    /\ Len(Bands(last.prev, last.pre.axes)) >= 2
    /\ Len(Bands(last, axes)) >= 2
    /\ Bands(last, axes)[1].alpha # Bands(last.prev, last.pre.axes)[1].alpha

====
